---- MODULE Spec2Model ----
(***************************************************************************)
(* Model of the data-retrieval service: the RetrievalTask aggregate, the   *)
(* SQLAlchemy unit of work, the command handlers and the Pulsar consumer.  *)
(***************************************************************************)
EXTENDS Integers, Sequences, FiniteSets, TLC

(***************************************************************************)
(* Bounds of the model.                                                    *)
(***************************************************************************)
MaxClock == 4
MaxCommands == 4
MaxImages == 2
MaxCount == 1
MaxDeliveries == 2
MaxInFlight == 2
MaxSessions == 3
MaxTasks == 2

(***************************************************************************)
(* Value domains.                                                          *)
(***************************************************************************)
RetrievalStatus == {"PENDING", "IN_PROGRESS", "COMPLETED", "FAILED"}
TerminalStatus == {"COMPLETED", "FAILED"}
TaskIds == 1..MaxTasks
ImageIds == 1..MaxImages
ErrorMessages == {"e1", "e2"}
\* result = None / started_at = None / completed_at = None
NoResult == [status |-> "None"]
NoTime == 0

VARIABLES
    task,       \* the in-memory RetrievalTask aggregate under test
    now,        \* datetime.now(), a logical clock: time passes with every call
    call,       \* the last state-machine call: its name, the status it met, what it raised
    db,         \* the committed rows of the retrieval_tasks and images tables
    files,      \* the image files on disk, as <<task id, filename>>
    broker,     \* the events sent to the broker, in send order
    proc,       \* one record per delivered message or HTTP request: the run of its handler
    delivered,  \* how many messages and requests have been handed to a handler run
    uuids,      \* how many task ids and image ids uuid4() has issued
    consumer,   \* PulsarConsumer: _is_running and whether self.consumer is set
    publisher,  \* PulsarPublisher: client, producers and the publish_events call under way
    uows        \* how many SqlAlchemyUnitOfWork instances have been constructed

taskVars == <<task, call>>
serviceVars == <<db, files, broker, proc, delivered, uuids, consumer, publisher, uows>>
vars == <<task, now, call, db, files, broker, proc, delivered, uuids, consumer, publisher,
          uows>>

(***************************************************************************)
(* RetrievalTask (domain/entities.py).                                      *)
(***************************************************************************)
RetrievalResult(status, message, total, successful, failed) ==
    [status |-> status, message |-> message, total_images |-> total,
     successful_images |-> successful, failed_images |-> failed]

\* The members of the SourceType enum the model uses, as enum members (not strings).
SourceType == {[enum |-> "SourceType", name |-> n] : n \in {"HOSPITAL", "CLINIC"}}

SourceMetadata(source_type) == [source_type |-> source_type, source_name |-> "s1"]

\* batch_id: Optional[str]; priority: int
BatchIds == {"None", "b1"}
Priorities == {0, 1}

\* A task as the create handler builds it: no result, no timestamps, no images, no events.
NewTask(id, source_metadata, batch_id, priority) ==
    [id |-> id, source_metadata |-> source_metadata, batch_id |-> batch_id,
     priority |-> priority, result |-> NoResult, started_at |-> NoTime,
     completed_at |-> NoTime, images |-> <<>>, events |-> <<>>]

RetrievalTask(id) ==
    NewTask(id, SourceMetadata([enum |-> "SourceType", name |-> "HOSPITAL"]), "None", 0)

ImageData(id, filename, is_stored) == [id |-> id, filename |-> filename, is_stored |-> is_stored]

\* status is derived from result.status when present, else PENDING
StatusOf(t) == IF t.result = NoResult THEN "PENDING" ELSE t.result.status

IsTerminal(t) == StatusOf(t) \in TerminalStatus

add_event(t, event) == [t EXCEPT !.events = Append(@, event)]

start_retrieval(t, clock) ==
    add_event([t EXCEPT !.started_at = clock,
                        !.result = RetrievalResult("IN_PROGRESS", "started", 0, 0, 0)],
              [type |-> "RetrievalStarted", task_id |-> t.id])

\* add_image putting the image in front of the collection instead of at its end.
add_image_Prepending(t, image) == [t EXCEPT !.images = <<image>> \o @]

add_image(t, image) == [t EXCEPT !.images = Append(@, image)]

RECURSIVE ReadyEvents(_, _)
ReadyEvents(t, images) ==
    IF images = <<>> THEN <<>>
    ELSE <<[type |-> "ImageReadyForAnonymization", task_id |-> t.id,
            image_id |-> Head(images).id]>> \o ReadyEvents(t, Tail(images))

\* notify_images_retrieved announcing the images in the reverse of the input order.
notify_images_retrieved_Reversed(t, images) ==
    LET rev == [k \in 1..Len(images) |-> images[Len(images) + 1 - k]]
    IN [t EXCEPT !.events =
          (@ \o <<[type |-> "ImagesRetrieved", task_id |-> t.id,
                   number_of_images |-> Len(images),
                   image_ids |-> [k \in 1..Len(images) |-> images[k].id]]>>)
             \o ReadyEvents(t, rev)]

notify_images_retrieved(t, images) ==
    [t EXCEPT !.events =
        (@ \o <<[type |-> "ImagesRetrieved", task_id |-> t.id,
                 number_of_images |-> Len(images),
                 image_ids |-> [k \in 1..Len(images) |-> images[k].id]]>>)
           \o ReadyEvents(t, images)]

\* complete_retrieval taking the successful count alone for the total.
complete_retrieval_TotalOfSuccessful(t, clock, successful, failed) ==
    LET r == RetrievalResult("COMPLETED", "completed", successful, successful, failed)
    IN add_event([t EXCEPT !.completed_at = clock, !.result = r],
                 [type |-> "RetrievalCompleted", task_id |-> t.id, result |-> r])

complete_retrieval(t, clock, successful, failed) ==
    LET r == RetrievalResult("COMPLETED", "completed", successful + failed, successful, failed)
    IN add_event([t EXCEPT !.completed_at = clock, !.result = r],
                 [type |-> "RetrievalCompleted", task_id |-> t.id, result |-> r])

\* fail_retrieval counting the attached images as failed instead of successful.
fail_retrieval_CountingFailed(t, clock, error_message) ==
    LET n == Len(t.images)
    IN add_event([t EXCEPT !.completed_at = clock,
                           !.result = RetrievalResult("FAILED", error_message, n, 0, n)],
                 [type |-> "RetrievalFailed", task_id |-> t.id,
                  error_message |-> error_message])

fail_retrieval(t, clock, error_message) ==
    LET n == Len(t.images)
    IN add_event([t EXCEPT !.completed_at = clock,
                           !.result = RetrievalResult("FAILED", error_message, n, n, 0)],
                 [type |-> "RetrievalFailed", task_id |-> t.id,
                  error_message |-> error_message])

(***************************************************************************)
(* Persistence (infrastructure/persistence/dto.py, repositories.py).       *)
(***************************************************************************)
NoRow == [absent |-> TRUE]
NoMessage == "None"
Filenames == {"f1"}

EmptyDb == [tasks |-> [t \in TaskIds |-> NoRow], images |-> [i \in ImageIds |-> NoRow]]

\* The uncommitted changes of a session: partial maps from ids to rows.
NoDirty == [tasks |-> <<>>, images |-> <<>>]

\* What session.commit() makes durable: the committed rows overlaid with the session's changes.
Flushed(d, dirty) ==
    [tasks  |-> [t \in TaskIds  |-> IF t \in DOMAIN dirty.tasks THEN dirty.tasks[t] ELSE d.tasks[t]],
     images |-> [i \in ImageIds |-> IF i \in DOMAIN dirty.images THEN dirty.images[i] ELSE d.images[i]]]

\* _entity_to_dto writing priority 0 whatever the entity holds.
_entity_to_dto_DroppingPriority(t) ==
    [batch_id          |-> t.batch_id,
     source_type       |-> t.source_metadata.source_type.name,
     source_name       |-> t.source_metadata.source_name,
     priority          |-> 0,
     status            |-> IF t.result # NoResult THEN t.result.status ELSE "PENDING",
     message           |-> IF t.result # NoResult THEN t.result.message ELSE NoMessage,
     total_images      |-> IF t.result # NoResult THEN t.result.total_images ELSE 0,
     successful_images |-> IF t.result # NoResult THEN t.result.successful_images ELSE 0,
     failed_images     |-> IF t.result # NoResult THEN t.result.failed_images ELSE 0,
     started_at        |-> t.started_at,
     completed_at      |-> t.completed_at]

\* source_type is stored as the enum member's value, which is its name
_entity_to_dto(t) ==
    [batch_id          |-> t.batch_id,
     source_type       |-> t.source_metadata.source_type.name,
     source_name       |-> t.source_metadata.source_name,
     priority          |-> t.priority,
     status            |-> IF t.result # NoResult THEN t.result.status ELSE "PENDING",
     message           |-> IF t.result # NoResult THEN t.result.message ELSE NoMessage,
     total_images      |-> IF t.result # NoResult THEN t.result.total_images ELSE 0,
     successful_images |-> IF t.result # NoResult THEN t.result.successful_images ELSE 0,
     failed_images     |-> IF t.result # NoResult THEN t.result.failed_images ELSE 0,
     started_at        |-> t.started_at,
     completed_at      |-> t.completed_at]

\* The row of a new image written with is_stored off.
ImageRow_Unstored(task_id, image) ==
    [task_id |-> task_id, filename |-> image.filename, is_stored |-> FALSE]

ImageRow(task_id, image) ==
    [task_id |-> task_id, filename |-> image.filename, is_stored |-> image.is_stored]

\* select(ImageDataDTO).filter(task_id == id): the ids of the rows of one task
ImagesOfTask(d, task_id) ==
    {i \in ImageIds : d.images[i] # NoRow /\ d.images[i].task_id = task_id}

\* The query has no ORDER BY: the rows come back in any order.
Enumerations(S) ==
    {q \in [1..Cardinality(S) -> S] : \A a, b \in 1..Cardinality(S) : a # b => q[a] # q[b]}

_dto_to_entity(d, id, order) ==
    LET row == d.tasks[id]
    IN [id |-> id,
        \* SourceType(dto.source_type): the member with that value
        source_metadata |->
            [source_type |-> CHOOSE m \in SourceType : m.name = row.source_type,
             source_name |-> row.source_name],
        batch_id |-> row.batch_id,
        priority |-> row.priority,
        result |-> IF row.status # "PENDING"
                   THEN RetrievalResult(row.status,
                                        IF row.message = NoMessage THEN "" ELSE row.message,
                                        row.total_images, row.successful_images, row.failed_images)
                   ELSE NoResult,
        started_at |-> row.started_at,
        completed_at |-> row.completed_at,
        images |-> [k \in 1..Len(order) |->
                       ImageData(order[k], d.images[order[k]].filename, d.images[order[k]].is_stored)],
        events |-> <<>>]

(***************************************************************************)
(* Messages and requests.                                                  *)
(***************************************************************************)
Envelope(shape, type, task_id, valid) ==
    [shape |-> shape, type |-> type, task_id |-> task_id, valid |-> valid,
     image_id |-> 0, successful_images |-> 0, failed_images |-> 0, error_message |-> "",
     filenames |-> <<>>]

\* Payloads that do not decode to a JSON object.
Malformed ==
    {Envelope(sh, "", 0, FALSE) : sh \in {"bad_utf8", "bad_json", "not_object"}}

\* command_handlers (command_handlers.py): the types the consumer dispatches
command_handlers == {"CreateRetrievalTask", "StartRetrievalTask", "UploadImage"}

\* Well-formed envelopes; "unknown" is what data.get('type', 'unknown') gives without a type.
WellFormed ==
    {Envelope("object", "CreateRetrievalTask", 0, v) : v \in BOOLEAN}
    \cup {Envelope("object", ty, t, TRUE) : ty \in {"StartRetrievalTask", "UploadImage"}, t \in TaskIds}
    \cup {Envelope("object", ty, 0, TRUE) : ty \in {"unknown", "DeleteTask"}}

BrokerMessages == Malformed \cup WellFormed

\* The handlers reached only through the HTTP routes (api/v1/data_retrieval.py).
CompleteRetrievalTask(shape) ==
    {[Envelope(shape, "CompleteRetrievalTask", t, TRUE)
         EXCEPT !.successful_images = sc, !.failed_images = fl] :
       t \in TaskIds, sc \in 0..MaxCount, fl \in 0..MaxCount}

FailRetrievalTask(shape) ==
    {[Envelope(shape, "FailRetrievalTask", t, TRUE) EXCEPT !.error_message = em] :
       t \in TaskIds, em \in ErrorMessages}

\* GET /tasks/{task_id}: the query of one task by id
GetRetrievalTaskById == {Envelope("http", "GetRetrievalTaskById", t, TRUE) : t \in TaskIds}

HttpRequests ==
    CompleteRetrievalTask("http") \cup FailRetrievalTask("http") \cup GetRetrievalTaskById

DeleteRetrievedImageCommand ==
    {[Envelope("direct", "DeleteRetrievedImage", t, TRUE) EXCEPT !.image_id = i] :
       t \in TaskIds, i \in ImageIds}

\* StoreImageBatch.images: any number of images up to the bound, in a given order
BatchFilenames == UNION {[1..n -> Filenames] : n \in 0..MaxImages}

StoreImageBatch ==
    {[Envelope("direct", "StoreImageBatch", t, TRUE) EXCEPT !.filenames = fs] :
       t \in TaskIds, fs \in BatchFilenames}

\* The commands a caller hands straight to the handlers (uow_create_retrieval_task ..
\* delete_retrieved_image), awaiting each before the next.
DirectCommands ==
    {Envelope("direct", "CreateRetrievalTask", 0, TRUE)}
    \cup {Envelope("direct", ty, t, TRUE) : ty \in {"StartRetrievalTask", "UploadImage"}, t \in TaskIds}
    \cup CompleteRetrievalTask("direct")
    \cup FailRetrievalTask("direct")
    \cup StoreImageBatch
    \cup DeleteRetrievedImageCommand

(***************************************************************************)
(* PulsarPublisher (infrastructure/messaging/pulsar_publisher.py).         *)
(***************************************************************************)
\* __init__: client = None, producers = {}; no publish_events call is under way.
\* created: per topic, how many producers create_producer has made for it.
NoPublisher ==
    [client |-> FALSE, producers |-> {}, created |-> <<>>, pc |-> "idle",
     events |-> <<>>, next |-> 1, sent |-> <<>>, raised |-> "none"]

\* topics_mapping[type] or the default topic of the type: one topic per event type
_get_topic_for_event(event) == event.type

\* How publish_event can end: it returns ("none") or raises in _initialize (only while
\* there is no client), in _get_producer (only while the topic has no producer) or in
\* producer.send.
PublishOutcomes(pb, event) ==
    {"none", "send"} \cup (IF pb.client THEN {} ELSE {"client"})
                    \cup (IF _get_topic_for_event(event) \in pb.producers THEN {}
                          ELSE {"producer"})

\* How many times create_producer has returned a producer for the topic.
Creations(pb, topic) == IF topic \in DOMAIN pb.created THEN pb.created[topic] ELSE 0

\* _get_producer calling create_producer on every call, replacing the cached producer.
_get_producer_Recreating(pb, topic) ==
    [pb EXCEPT !.producers = @ \cup {topic},
               !.created = (topic :> Creations(pb, topic) + 1) @@ @]

\* _get_producer: "if topic not in self.producers" create_producer and cache it; the
\* check and the assignment have no await between them.
_get_producer(pb, topic) ==
    IF topic \in pb.producers THEN pb
    ELSE [pb EXCEPT !.producers = @ \cup {topic},
                    !.created = (topic :> Creations(pb, topic) + 1) @@ @]

\* publish_event: the client and the topic's producer are created on first use and
\* kept, also when the send raises.
publish_event(pb, event, at) ==
    CASE at = "client" -> pb
      [] at = "producer" -> [pb EXCEPT !.client = TRUE]
      [] OTHER -> _get_producer([pb EXCEPT !.client = TRUE], _get_topic_for_event(event))

\* publish_events logging a failing event and going on with the next one.
publish_events_Continuing(pb, at) ==
    LET event == pb.events[pb.next]
        pb1 == publish_event(pb, event, at)
        last == pb.next = Len(pb.events)
    IN IF at = "none"
       THEN [pb1 EXCEPT !.sent = Append(@, event), !.next = @ + 1,
                        !.pc = IF last THEN (IF pb.raised = "none" THEN "returned"
                                             ELSE "raised")
                               ELSE "sending"]
       ELSE [pb1 EXCEPT !.next = @ + 1, !.raised = "PulsarError",
                        !.pc = IF last THEN "raised" ELSE "sending"]

\* One iteration of "for event in events: await self.publish_event(event)": the
\* exception of publish_event leaves the loop and the call.
publish_events(pb, at) ==
    LET event == pb.events[pb.next]
        pb1 == publish_event(pb, event, at)
    IN IF at = "none"
       THEN [pb1 EXCEPT !.sent = Append(@, event), !.next = @ + 1,
                        !.pc = IF pb.next = Len(pb.events) THEN "returned" ELSE "sending"]
       ELSE [pb1 EXCEPT !.raised = "PulsarError", !.pc = "raised"]

(***************************************************************************)
(* PulsarConsumer (infrastructure/messaging/pulsar_consumer.py): lifecycle. *)
(***************************************************************************)
\* __init__: nothing is connected. stop: how far stop() has come; loop: how the
\* receive loop ended when stop() awaited it.
NoConsumer ==
    [is_running |-> FALSE, consumer |-> FALSE, client |-> FALSE, executor |-> FALSE,
     consumer_task |-> "None", loop |-> "none", stop |-> "none"]

\* start() has returned: client, subscription, executor and the receive loop's task
StartedConsumer ==
    [NoConsumer EXCEPT !.is_running = TRUE, !.consumer = TRUE, !.client = TRUE,
                       !.executor = TRUE, !.consumer_task = "running"]

\* close(): executor.shutdown, consumer.close(), client.close(); every reference is
\* set to None whether or not its close() raised. It does not touch the publisher.
close(c) == [c EXCEPT !.executor = FALSE, !.consumer = FALSE, !.client = FALSE]

(***************************************************************************)
(* A handler run: its aggregate, its unit of work and what it did.         *)
(***************************************************************************)
NoTask == [id |-> 0]
NoImage == [id |-> 0]
NoMsg == Envelope("none", "", 0, FALSE)
NoRet == [task_id |-> 0, image_id |-> 0, total_images |-> 0]

\* SqlAlchemyUnitOfWork.__init__: _session = None, _repositories = {}
\* id: which instance it is, 0 while the run has none. sessions: how many sessions
\* session_factory() has made for it; instances: how many repository objects its
\* factories have constructed. repositories holds one record per memoized object.
NoUow ==
    [made |-> FALSE, id |-> 0, session |-> "None", sessions |-> 0, instances |-> 0,
     repositories |-> {}, closed |-> FALSE]

\* get_unit_of_work handing out one instance built once, to every caller.
get_unit_of_work_Singleton(n) == [NoUow EXCEPT !.made = TRUE, !.id = 1]

\* get_unit_of_work (config/dependencies.py): a new SqlAlchemyUnitOfWork per call; n is
\* the number of instances constructed before this one.
get_unit_of_work(n) == [NoUow EXCEPT !.made = TRUE, !.id = n + 1]

IdleProc ==
    [pc |-> "idle", msg |-> NoMsg, task |-> NoTask, image |-> NoImage,
     uow |-> NoUow, dirty |-> NoDirty,
     met |-> "none",        \* what get_by_id found: "absent" or the task's status
     images |-> <<>>,       \* stored_images: the images this run attaches
     saved |-> 0,           \* how many of them image_repository.save has written
     written |-> {},        \* the files this run has written
     exc |-> "none",        \* the exception travelling up the handler, if any
     signalled |-> "none",  \* the exception __aexit__ was entered with
     queue |-> <<>>,        \* the events the handler is about to publish
     sent |-> <<>>,         \* the events this run has sent to the broker
     invoked |-> FALSE,     \* the consumer called the handler
     committed |-> FALSE,   \* uow.commit() has returned
     wrote |-> FALSE,       \* a write of this run has become durable
     rollbacks |-> 0,       \* session.rollback() calls
     commit_failed |-> FALSE, \* session.commit() raised inside uow.commit()
     exit_rollback |-> FALSE, \* __aexit__ called rollback()
     exited |-> FALSE,      \* __aexit__ has run
     dup |-> FALSE,         \* redelivery of a message that was already acknowledged
     ret |-> NoRet,         \* what the handler returned
     again |-> FALSE,       \* the command before this one compensated the same image and returned
     last |-> FALSE,        \* the image was the task's only stored image when the run loaded it
     removed |-> FALSE,     \* os.remove() deleted the image file
     task_failed |-> FALSE, \* the compensation called fail_retrieval on the task
     failure |-> "none",    \* what the except clause of the compensation caught
     reported |-> "none",   \* the ImageDeletionFailed publish: "sent" or "lost"
     settled |-> "none"]    \* "ack" / "nack" for a message, the status code for a request

Procs == 1..MaxInFlight

(***************************************************************************)
(* SpecTask: every sequence of state-machine calls on one aggregate.       *)
(***************************************************************************)
\* The arguments of a call; a call leaves those it does not take at their defaults.
NoArg == [images |-> <<>>, successful |-> 0, failed |-> 0, message |-> ""]

NoCall ==
    [op |-> "none", met |-> "PENDING", raised |-> "none", before |-> RetrievalTask(1),
     arg |-> NoArg]

\* The entity methods have no guard and no raise statement: a call always returns.
CalledWith(op, arg) ==
    [op |-> op, met |-> StatusOf(task), raised |-> "none", before |-> task, arg |-> arg]

Called(op) == CalledWith(op, NoArg)

\* The image lists handed to notify_images_retrieved: any images, in any order.
ImageLists ==
    UNION {Enumerations(S) : S \in SUBSET {ImageData(i, "f1", TRUE) : i \in ImageIds}}

InitTask ==
    /\ task = RetrievalTask(1)
    /\ now = 1
    /\ call = NoCall
    /\ db = EmptyDb
    /\ files = {}
    /\ broker = <<>>
    /\ proc = [p \in Procs |-> IdleProc]
    /\ delivered = 0
    /\ uuids = [tasks |-> 0, images |-> 0]
    /\ consumer = NoConsumer
    /\ publisher = NoPublisher
    /\ uows = 0

TaskStart ==
    /\ now < MaxClock
    /\ task' = start_retrieval(task, now)
    /\ now' = now + 1
    /\ call' = Called("start")
    /\ UNCHANGED serviceVars

TaskAddImage ==
    /\ now < MaxClock
    /\ Len(task.images) < MaxImages
    /\ \E i \in ImageIds :
          /\ \A k \in 1..Len(task.images) : task.images[k].id # i
          /\ task' = add_image(task, ImageData(i, "f1", TRUE))
          /\ call' = CalledWith("add_image",
                                [NoArg EXCEPT !.images = <<ImageData(i, "f1", TRUE)>>])
    /\ now' = now + 1
    /\ UNCHANGED serviceVars

TaskComplete ==
    /\ now < MaxClock
    /\ \E s \in 0..MaxCount, f \in 0..MaxCount :
          /\ task' = complete_retrieval(task, now, s, f)
          /\ call' = CalledWith("complete", [NoArg EXCEPT !.successful = s, !.failed = f])
    /\ now' = now + 1
    /\ UNCHANGED serviceVars

TaskFail ==
    /\ now < MaxClock
    /\ \E m \in ErrorMessages :
          /\ task' = fail_retrieval(task, now, m)
          /\ call' = CalledWith("fail", [NoArg EXCEPT !.message = m])
    /\ now' = now + 1
    /\ UNCHANGED serviceVars

TaskNotify ==
    /\ now < MaxClock
    /\ \E images \in ImageLists :
          /\ task' = notify_images_retrieved(task, images)
          /\ call' = CalledWith("notify", [NoArg EXCEPT !.images = images])
    /\ now' = now + 1
    /\ UNCHANGED serviceVars

NextTask == TaskStart \/ TaskAddImage \/ TaskNotify \/ TaskComplete \/ TaskFail

SpecTask == InitTask /\ [][NextTask]_vars

(***************************************************************************)
(* SpecRoundTrip: a task the handlers build and change, written through    *)
(* SQLRetrievalRepository and read back with get_by_id.                    *)
(***************************************************************************)
\* The task is new (not saved yet) or the create handler has saved it.
InitRoundTrip ==
    /\ \E st \in SourceType, b \in BatchIds, pr \in Priorities :
          /\ task = NewTask(1, SourceMetadata(st), b, pr)
          /\ db \in {EmptyDb, [EmptyDb EXCEPT !.tasks[1] = _entity_to_dto(task)]}
    /\ now = 1
    /\ call = NoCall
    /\ files = {}
    /\ broker = <<>>
    /\ proc = [p \in Procs |-> IdleProc]
    /\ delivered = 0
    /\ uuids = [tasks |-> 1, images |-> 0]
    /\ consumer = NoConsumer
    /\ publisher = NoPublisher
    /\ uows = 0

\* The store handler on a loaded task: add_image, then SQLImageRepository.save of it.
RoundTripStoreImage ==
    /\ now < MaxClock
    /\ db.tasks[task.id] # NoRow
    /\ uuids.images < MaxImages
    /\ \E fn \in Filenames :
          LET image == ImageData(uuids.images + 1, fn, TRUE)
          IN /\ task' = add_image(task, image)
             /\ db' = [db EXCEPT !.images[image.id] = ImageRow(task.id, image)]
    /\ uuids' = [uuids EXCEPT !.images = @ + 1]
    /\ call' = Called("store_image")
    /\ now' = now + 1
    /\ UNCHANGED <<files, broker, proc, delivered, consumer, publisher, uows>>

\* save (a new row) or update (the tracked row), then get_by_id in any row order.
RoundTrip ==
    /\ now < MaxClock
    /\ LET written == [db EXCEPT !.tasks[task.id] = _entity_to_dto(task)]
       IN /\ db' = written
          /\ \E order \in Enumerations(ImagesOfTask(written, task.id)) :
                task' = _dto_to_entity(written, task.id, order)
    /\ call' = Called(IF db.tasks[task.id] = NoRow THEN "save_load" ELSE "update_load")
    /\ now' = now + 1
    /\ UNCHANGED <<files, broker, proc, delivered, uuids, consumer, publisher, uows>>

NextRoundTrip ==
    \/ TaskStart
    \/ TaskComplete
    \/ TaskFail
    \/ RoundTripStoreImage
    \/ RoundTrip

SpecRoundTrip == InitRoundTrip /\ [][NextRoundTrip]_vars

(***************************************************************************)
(* SqlAlchemyUnitOfWork (seedwork/infrastructure/uow.py).                  *)
(***************************************************************************)
repositories_factory == {"retrieval", "image"}

\* __aenter__: a new session, no repository instances yet
__aenter__(u) ==
    [u EXCEPT !.made = TRUE, !.session = "set", !.sessions = @ + 1, !.repositories = {},
              !.closed = FALSE]

\* The registration check accepting every name.
IsRegistered_Any(name) == TRUE

\* "if name not in self.repositories_factory: raise KeyError"
IsRegistered(name) == name \in repositories_factory

\* self._repositories[name], if there is one
Memoized(u, name) == {e \in u.repositories : e.name = name}

\* factory(self._session): a new object holding the session the unit of work has now
\* (0: None)
NewRepository(u, name) ==
    [name |-> name, inst |-> u.instances + 1,
     session |-> IF u.session = "set" THEN u.sessions ELSE 0]

\* _get_repository constructing a repository on every call.
_get_repository_Fresh(u, name) ==
    IF ~IsRegistered(name) THEN u
    ELSE [u EXCEPT !.instances = @ + 1,
                   !.repositories = (@ \ Memoized(u, name)) \cup {NewRepository(u, name)}]

\* _get_repository: the unit of work after the call. An unregistered name raises
\* before anything is touched; a registered one is constructed once and memoized.
_get_repository(u, name) ==
    IF ~IsRegistered(name) \/ Memoized(u, name) # {} THEN u
    ELSE [u EXCEPT !.instances = @ + 1,
                   !.repositories = @ \cup {NewRepository(u, name)}]

\* What is not a repository: the call raised.
NoRepository == [name |-> "", inst |-> 0, session |-> 0]

\* repository(name): what the call returns
repository(u, name) ==
    IF ~IsRegistered(name) THEN NoRepository
    ELSE CHOOSE e \in _get_repository(u, name).repositories : e.name = name

\* await self._session.close() returned; self._session = None; self._repositories = {}
Released(r) ==
    [r EXCEPT !.uow.session = "None", !.uow.repositories = {}, !.uow.closed = TRUE,
              !.dirty = NoDirty]

\* __aexit__ returning a true value: the exception of the scope is swallowed.
__aexit___Suppressing(r, rb_ok, c1_ok, c2_ok) ==
    [Released(r) EXCEPT !.signalled = r.exc, !.exited = TRUE,
                        !.exit_rollback = (r.exc # "none"), !.exc = "none"]

\* __aexit__ entered with r.exc. rb_ok: session.rollback() returns; c1_ok, c2_ok: the
\* first and the second session.close() call return. The result's exc is what leaves
\* __aexit__ (the exception it was entered with when __aexit__ itself does not raise).
__aexit__(r, rb_ok, c1_ok, c2_ok) ==
    LET r0 == [r EXCEPT !.signalled = r.exc, !.exited = TRUE]
        r1 == IF r.exc # "none"
              THEN [r0 EXCEPT !.rollbacks = @ + 1, !.exit_rollback = TRUE,
                              !.dirty = IF rb_ok THEN NoDirty ELSE @]
              ELSE r0
    IN IF r.exc # "none" /\ ~rb_ok
       THEN \* rollback raised: the except branch closes the session and re-raises
            IF c1_ok THEN [Released(r1) EXCEPT !.exc = "RollbackError"]
            ELSE [r1 EXCEPT !.exc = "CloseError"]
       ELSE IF c1_ok THEN Released(r1)
       ELSE \* close raised: the except branch closes again, clears and re-raises
            IF c2_ok THEN [Released(r1) EXCEPT !.exc = "CloseError"]
            ELSE [r1 EXCEPT !.exc = "CloseError"]

\* commit(): session.commit(); on failure rollback() and re-raise
uow_commit(r, d, ok, rb_ok) ==
    IF ok THEN [r EXCEPT !.committed = TRUE, !.dirty = NoDirty,
                         !.wrote = @ \/ (Flushed(d, r.dirty) # d)]
    ELSE [r EXCEPT !.rollbacks = @ + 1, !.commit_failed = TRUE,
                   !.dirty = IF rb_ok THEN NoDirty ELSE @,
                   !.exc = IF rb_ok THEN "DBError" ELSE "RollbackError"]

(***************************************************************************)
(* PulsarConsumer._process_message and the HTTP routes: how a run ends.    *)
(***************************************************************************)
\* try/except of _process_message: JSONDecodeError is acknowledged, any other
\* exception negative-acknowledged.
Outcome(exc) == IF exc \in {"none", "JSONDecodeError"} THEN "ack" ELSE "nack"

\* except ValueError / except Exception of the routes
HttpStatus(exc) ==
    CASE exc = "none" -> "200"
      [] exc = "NotFound" -> "404"
      [] exc = "ValueError" -> "400"
      [] OTHER -> "500"

\* Settled with the two branches of _process_message confused: it acknowledges
\* where the code negative-acknowledges.
Settled_Acknowledging(r, how) ==
    [r EXCEPT !.pc = "done", !.settled = IF consumer.consumer THEN "ack" ELSE "none"]

\* self.consumer.acknowledge(msg) / negative_acknowledge(msg): once close() has set
\* self.consumer = None both raise AttributeError, also inside the except clause.
Settled(r, how) ==
    [r EXCEPT !.pc = "done", !.settled = IF consumer.consumer THEN how ELSE "none"]

\* The handler has returned or raised: its local aggregate, image and events are gone.
Returned(r) ==
    [r EXCEPT !.task = NoTask, !.image = NoImage, !.queue = <<>>,
              !.ret = IF r.exc = "none" /\ r.task # NoTask
                      THEN [task_id |-> r.task.id, image_id |-> r.image.id,
                            total_images |-> r.msg.successful_images + r.msg.failed_images]
                      ELSE NoRet]

\* api_get_task: "if not result: raise HTTPException(404)" stands inside the try, and
\* HTTPException is an Exception but no ValueError: "except Exception" catches it and
\* raises HTTPException(500) in its place.
api_get_task(r) ==
    CASE r.exc = "ValueError" -> "400"
      [] r.exc # "none" -> "500"
      [] r.met = "absent" -> "500"
      [] OTHER -> "200"

Finished(r) ==
    CASE r.msg.shape = "http" ->
           [Returned(r) EXCEPT !.pc = "done",
                               !.settled = IF r.msg.type = "GetRetrievalTaskById"
                                           THEN api_get_task(r) ELSE HttpStatus(r.exc)]
      [] r.msg.shape = "direct" ->
           [Returned(r) EXCEPT !.pc = "done",
                               !.settled = IF r.exc = "none" THEN "returned" ELSE "raised"]
      [] OTHER -> Settled(Returned(r), Outcome(r.exc))

\* A slot of the model is free when no run occupies it or its run has ended.
FreeSlots == {p \in Procs : proc[p].pc \in {"idle", "done"}}
FreeSlot == CHOOSE p \in FreeSlots : \A q \in FreeSlots : p <= q

\* The first await of each handler.
FirstAwait(type) ==
    CASE type = "CreateRetrievalTask" -> "save"
      [] type = "DeleteRetrievedImage" -> "compensate"
      [] OTHER -> "load"

Entered(r) ==
    [r EXCEPT !.invoked = TRUE, !.uow = __aenter__(@), !.pc = FirstAwait(r.msg.type)]

\* An exception inside the handler's try: the except clause of the compensation
\* reports it before re-raising, the other handlers re-raise at once.
Raised(r, exc) ==
    [r EXCEPT !.exc = exc,
              !.pc = IF r.msg.type = "DeleteRetrievedImage" THEN "report" ELSE "exit"]

\* if not task: raise ValueError(...) answered by returning as if nothing was asked.
TaskNotFound_Returning(r) == [r EXCEPT !.met = "absent", !.pc = "exit"]

\* if not task: raise ValueError("No se encontró la tarea con ID: ...")
TaskNotFound(r) == Raised([r EXCEPT !.met = "absent"], "NotFound")

RECURSIVE add_images(_, _)
\* The batch loop attaching the first image only.
add_images_FirstOnly(t, images) ==
    IF images = <<>> THEN t ELSE add_image(t, Head(images))

\* task.add_image(image) for each image of the batch, in order
add_images(t, images) ==
    IF images = <<>> THEN t ELSE add_images(add_image(t, Head(images)), Tail(images))

\* Where each handler goes after publishing its events and after updating the task:
\* the compensation updates, publishes, commits; the others publish, update, commit.
AfterPublish(r) == IF r.msg.type = "DeleteRetrievedImage" THEN "commit" ELSE "update"
AfterUpdate(r) == IF r.msg.type = "DeleteRetrievedImage" THEN "publish" ELSE "commit"

(***************************************************************************)
(* Spec: the consumer, the routes and the handlers they run.               *)
(***************************************************************************)
Init ==
    /\ task = RetrievalTask(1)
    /\ call = NoCall
    /\ now = 1
    /\ db = EmptyDb
    /\ files = {}
    /\ broker = <<>>
    /\ proc = [p \in Procs |-> IdleProc]
    /\ delivered = 0
    /\ uuids = [tasks |-> 0, images |-> 0]
    /\ consumer = StartedConsumer
    /\ publisher = NoPublisher
    /\ uows = 0

\* _consume_messages awaiting the task of each message before it receives the next.
Receive_Awaiting ==
    /\ consumer.is_running
    /\ consumer.consumer
    /\ delivered < MaxDeliveries
    /\ \A q \in Procs : proc[q].msg.shape \in {"http", "direct"} \/ proc[q].pc \in {"idle", "done"}
    /\ FreeSlots # {}
    /\ \E m \in BrokerMessages :
          /\ proc' = [proc EXCEPT ![FreeSlot] =
                        [IdleProc EXCEPT !.pc = "decode", !.msg = m,
                                         !.dup = \E q \in Procs : /\ proc[q].msg = m
                                                                  /\ proc[q].settled = "ack"]]
    /\ delivered' = delivered + 1
    /\ UNCHANGED <<task, call, now, db, files, broker, uuids, consumer, publisher, uows>>

\* _consume_messages: receive() returned a message; create_task(_process_message(msg))
Receive ==
    /\ consumer.is_running
    /\ consumer.consumer
    /\ delivered < MaxDeliveries
    /\ FreeSlots # {}
    /\ \E m \in BrokerMessages :
          /\ proc' = [proc EXCEPT ![FreeSlot] =
                        [IdleProc EXCEPT !.pc = "decode", !.msg = m,
                                         !.dup = \E q \in Procs : /\ proc[q].msg = m
                                                                  /\ proc[q].settled = "ack"]]
    /\ delivered' = delivered + 1
    /\ UNCHANGED <<task, call, now, db, files, broker, uuids, consumer, publisher, uows>>

\* api_complete_task / api_fail_task: the route builds the handler and enters its scope
Request ==
    /\ delivered < MaxDeliveries
    /\ FreeSlots # {}
    /\ \E m \in HttpRequests :
          proc' = [proc EXCEPT ![FreeSlot] =
                     Entered([IdleProc EXCEPT !.msg = m, !.uow = get_unit_of_work(uows)])]
    /\ delivered' = delivered + 1
    /\ uows' = uows + 1
    /\ UNCHANGED <<task, call, now, db, files, broker, uuids, consumer, publisher>>

\* _process_message up to its first await: decode, look the handler up, validate
Decode(p) ==
    /\ proc[p].pc = "decode"
    /\ LET r == proc[p]
           m == r.msg
       IN proc' = [proc EXCEPT ![p] =
            CASE m.shape = "bad_utf8"   -> Settled([r EXCEPT !.exc = "UnicodeDecodeError"],
                                                   Outcome("UnicodeDecodeError"))
              [] m.shape = "bad_json"   -> Settled([r EXCEPT !.exc = "JSONDecodeError"],
                                                   Outcome("JSONDecodeError"))
              [] m.shape = "not_object" -> Settled([r EXCEPT !.exc = "AttributeError"],
                                                   Outcome("AttributeError"))
              [] OTHER ->
                   IF m.type \notin command_handlers
                   THEN Settled(r, "nack")
                   ELSE LET r1 == [r EXCEPT !.uow = get_unit_of_work(uows)]
                        IN IF ~m.valid
                           THEN Settled([r1 EXCEPT !.invoked = TRUE, !.exc = "ValueError"],
                                        Outcome("ValueError"))
                           ELSE Entered(r1)]
    /\ uows' = IF /\ proc[p].msg.shape \notin {"bad_utf8", "bad_json", "not_object"}
                  /\ proc[p].msg.type \in command_handlers
               THEN uows + 1 ELSE uows
    /\ UNCHANGED <<task, call, now, db, files, broker, delivered, uuids, consumer, publisher>>

\* SQLRetrievalRepository.save of a new task: session.add(dto); session.commit()
Save(p) ==
    /\ proc[p].pc = "save"
    /\ uuids.tasks < MaxTasks
    /\ uuids' = [uuids EXCEPT !.tasks = @ + 1]
    /\ \E ok \in BOOLEAN :
          LET r == proc[p]
              t == RetrievalTask(uuids.tasks + 1)
              dirty == [r.dirty EXCEPT !.tasks = (t.id :> _entity_to_dto(t)) @@ @]
              r1 == [r EXCEPT !.task = t, !.uow = _get_repository(@, "retrieval")]
          IN IF ok
             THEN /\ db' = Flushed(db, dirty)
                  /\ proc' = [proc EXCEPT ![p] = [r1 EXCEPT !.wrote = TRUE, !.pc = "commit"]]
             ELSE /\ db' = db
                  /\ proc' = [proc EXCEPT ![p] = Raised([r1 EXCEPT !.dirty = dirty], "DBError")]
    /\ UNCHANGED <<task, call, now, files, broker, delivered, consumer, publisher, uows>>

\* get_by_id, then the handler's code up to its next await
Load(p) ==
    /\ proc[p].pc = "load"
    /\ LET r == proc[p]
           id == r.msg.task_id
           u == IF r.msg.type \in {"UploadImage", "StoreImageBatch"}
                THEN _get_repository(_get_repository(r.uow, "retrieval"), "image")
                ELSE _get_repository(r.uow, "retrieval")
           r0 == [r EXCEPT !.uow = u]
           r1 == IF db.tasks[id] = NoRow THEN r0
                 ELSE [r0 EXCEPT !.met = db.tasks[id].status]
       IN IF db.tasks[id] = NoRow
          THEN /\ proc' = [proc EXCEPT ![p] =
                              IF r.msg.type = "GetRetrievalTaskById"
                              THEN [r0 EXCEPT !.met = "absent", !.pc = "exit"]
                              ELSE TaskNotFound(r0)]
               /\ UNCHANGED <<now, files, uuids>>
          ELSE \E order \in Enumerations(ImagesOfTask(db, id)) :
                 LET t == _dto_to_entity(db, id, order)
                 IN \/ /\ r.msg.type = "GetRetrievalTaskById"
                       /\ proc' = [proc EXCEPT ![p] = [r1 EXCEPT !.task = t, !.pc = "exit"]]
                       /\ UNCHANGED <<now, files, uuids>>
                    \/ /\ r.msg.type = "StartRetrievalTask"
                       /\ LET t1 == start_retrieval(t, now)
                          IN proc' = [proc EXCEPT ![p] =
                                [r1 EXCEPT !.task = t1, !.pc = "publish",
                                           !.queue = <<t1.events[Len(t1.events)]>>]]
                       /\ now' = now + 1
                       /\ UNCHANGED <<files, uuids>>
                    \/ /\ r.msg.type = "CompleteRetrievalTask"
                       /\ LET t1 == complete_retrieval(t, now, r.msg.successful_images,
                                                       r.msg.failed_images)
                          IN proc' = [proc EXCEPT ![p] =
                                [r1 EXCEPT !.task = t1, !.pc = "publish",
                                           !.queue = <<t1.events[Len(t1.events)]>>]]
                       /\ now' = now + 1
                       /\ UNCHANGED <<files, uuids>>
                    \/ /\ r.msg.type = "FailRetrievalTask"
                       /\ LET t1 == fail_retrieval(t, now, r.msg.error_message)
                          IN proc' = [proc EXCEPT ![p] =
                                [r1 EXCEPT !.task = t1, !.pc = "publish",
                                           !.queue = <<t1.events[Len(t1.events)]>>]]
                       /\ now' = now + 1
                       /\ UNCHANGED <<files, uuids>>
                    \/ /\ r.msg.type = "UploadImage"
                       /\ uuids.images < MaxImages
                       /\ uuids' = [uuids EXCEPT !.images = @ + 1]
                       /\ \E fn \in Filenames :
                            LET image == ImageData(uuids.images + 1, fn, TRUE)
                            IN /\ files' = files \cup {<<id, fn>>}
                               /\ proc' = [proc EXCEPT ![p] =
                                     [r1 EXCEPT !.task = add_image(t, image),
                                                !.image = image, !.images = <<image>>,
                                                !.written = {<<id, fn>>},
                                                !.pc = "save_image"]]
                       /\ UNCHANGED now
                    \/ /\ r.msg.type = "StoreImageBatch"
                       /\ LET fs == r.msg.filenames
                              n == Len(fs)
                              images == [k \in 1..n |->
                                           ImageData(uuids.images + k, fs[k], TRUE)]
                              paths == {<<id, fs[k]>> : k \in 1..n}
                              t1 == add_images(t, images)
                              t2 == notify_images_retrieved(t1, images)
                          IN /\ uuids.images + n <= MaxImages
                             /\ uuids' = [uuids EXCEPT !.images = @ + n]
                             /\ files' = files \cup paths
                             /\ proc' = [proc EXCEPT ![p] =
                                   IF n = 0
                                   THEN [r1 EXCEPT !.task = t2, !.queue = t2.events,
                                                   !.pc = "publish"]
                                   ELSE [r1 EXCEPT !.task = t1, !.images = images,
                                                   !.written = paths,
                                                   !.pc = "save_image"]]
                       /\ UNCHANGED now
    /\ UNCHANGED <<task, call, db, broker, delivered, consumer, publisher, uows>>

\* SQLImageRepository.save of the next image of stored_images (save_batch saves them
\* one by one, each with its own session.commit()); after the last one,
\* notify_images_retrieved(stored_images)
SaveImage(p) ==
    /\ proc[p].pc = "save_image"
    /\ \E ok \in BOOLEAN :
          LET r == proc[p]
              image == r.images[r.saved + 1]
              dirty == [r.dirty EXCEPT !.images = (image.id :> ImageRow(r.task.id, image)) @@ @]
          IN IF ok
             THEN /\ db' = Flushed(db, dirty)
                  /\ LET t1 == notify_images_retrieved(r.task, r.images)
                     IN proc' = [proc EXCEPT ![p] =
                           IF r.saved + 1 = Len(r.images)
                           THEN [r EXCEPT !.task = t1, !.wrote = TRUE, !.saved = @ + 1,
                                          !.queue = t1.events, !.pc = "publish"]
                           ELSE [r EXCEPT !.wrote = TRUE, !.saved = @ + 1]]
             ELSE /\ db' = db
                  /\ proc' = [proc EXCEPT ![p] = Raised([r EXCEPT !.dirty = dirty], "DBError")]
    /\ UNCHANGED <<task, call, now, files, broker, delivered, uuids, consumer, publisher, uows>>

\* PulsarPublisher.publish_event of the next event of the handler
Publish(p) ==
    /\ proc[p].pc = "publish"
    /\ \E at \in PublishOutcomes(publisher, Head(proc[p].queue)) :
          LET r == proc[p]
              e == Head(r.queue)
          IN /\ publisher' = publish_event(publisher, e, at)
             /\ IF at = "none"
                THEN /\ broker' = Append(broker, e)
                     /\ proc' = [proc EXCEPT ![p] =
                           [r EXCEPT !.sent = Append(@, e), !.queue = Tail(@),
                                     !.pc = IF Tail(r.queue) = <<>> THEN AfterPublish(r)
                                            ELSE "publish"]]
                ELSE /\ broker' = broker
                     /\ proc' = [proc EXCEPT ![p] = Raised(r, "PulsarError")]
    /\ UNCHANGED <<task, call, now, db, files, delivered, uuids, consumer, uows>>

\* SQLRetrievalRepository.update: copy the aggregate onto the row; session.commit()
Update(p) ==
    /\ proc[p].pc = "update"
    /\ \E ok \in BOOLEAN :
          LET r == proc[p]
              dirty == [r.dirty EXCEPT !.tasks = (r.task.id :> _entity_to_dto(r.task)) @@ @]
          IN IF ok
             THEN /\ db' = Flushed(db, dirty)
                  /\ proc' = [proc EXCEPT ![p] = [r EXCEPT !.wrote = TRUE, !.pc = AfterUpdate(r)]]
             ELSE /\ db' = db
                  /\ proc' = [proc EXCEPT ![p] = Raised([r EXCEPT !.dirty = dirty], "DBError")]
    /\ UNCHANGED <<task, call, now, files, broker, delivered, uuids, consumer, publisher, uows>>

\* self.uow.commit()
Commit(p) ==
    /\ proc[p].pc = "commit"
    /\ \E ok \in BOOLEAN, rb_ok \in BOOLEAN :
          /\ ok => rb_ok
          /\ db' = IF ok THEN Flushed(db, proc[p].dirty) ELSE db
          /\ LET r == uow_commit(proc[p], db, ok, rb_ok)
             IN proc' = [proc EXCEPT ![p] = IF ok THEN [r EXCEPT !.pc = "exit"]
                                            ELSE Raised(r, r.exc)]
    /\ UNCHANGED <<task, call, now, files, broker, delivered, uuids, consumer, publisher, uows>>

\* Leaving "async with self.uow", then the caller's acknowledge / response
Exit(p) ==
    /\ proc[p].pc = "exit"
    /\ \E rb_ok \in BOOLEAN, c1_ok \in BOOLEAN, c2_ok \in BOOLEAN :
          /\ proc[p].exc = "none" => rb_ok
          /\ (c1_ok \/ ~rb_ok) => c2_ok
          /\ proc' = [proc EXCEPT ![p] = Finished(__aexit__(proc[p], rb_ok, c1_ok, c2_ok))]
    /\ UNCHANGED <<task, call, now, db, files, broker, delivered, uuids, consumer, publisher, uows>>

\* stop() on a running consumer: self._is_running = False, then it awaits the loop
Stop ==
    /\ consumer.is_running
    /\ consumer' = [consumer EXCEPT !.is_running = FALSE, !.stop = "awaiting"]
    /\ UNCHANGED <<task, call, now, db, files, broker, proc, delivered, uuids, publisher, uows>>

\* await asyncio.wait_for(self._consumer_task, timeout=5.0): the loop ended by itself,
\* was cancelled after the timeout, or raised; finally self._consumer_task = None
AwaitLoop ==
    /\ consumer.stop = "awaiting"
    /\ \E how \in {"ended", "cancelled", "raised"} :
          consumer' = [consumer EXCEPT !.consumer_task = "None", !.loop = how,
                                       !.stop = "closing"]
    /\ UNCHANGED <<task, call, now, db, files, broker, proc, delivered, uuids, publisher, uows>>

\* stop() waiting until every handler in flight has finished before it closes.
Close_Waiting ==
    /\ consumer.stop = "closing"
    /\ \A p \in Procs : proc[p].pc \in {"idle", "done"}
    /\ consumer' = [close(consumer) EXCEPT !.stop = "stopped"]
    /\ UNCHANGED <<task, call, now, db, files, broker, proc, delivered, uuids, publisher, uows>>

\* stop() goes on to close() and returns. The event loop runs the first step of every
\* _process_message task already created before it resumes stop().
Close ==
    /\ consumer.stop = "closing"
    /\ \A p \in Procs : proc[p].pc # "decode"
    /\ consumer' = [close(consumer) EXCEPT !.stop = "stopped"]
    /\ UNCHANGED <<task, call, now, db, files, broker, proc, delivered, uuids, publisher, uows>>

Next ==
    \/ Receive
    \/ Request
    \/ Stop
    \/ AwaitLoop
    \/ Close
    \/ \E p \in Procs :
          \/ Decode(p)
          \/ Save(p)
          \/ Load(p)
          \/ SaveImage(p)
          \/ Publish(p)
          \/ Update(p)
          \/ Commit(p)
          \/ Exit(p)

Spec == Init /\ [][Next]_vars

(***************************************************************************)
(* DeleteRetrievedImageHandler (commands/compensation_commands.py) and the *)
(* image repository calls it makes.                                        *)
(***************************************************************************)
\* update_image_status leaving is_stored as it finds it.
update_image_status_Keeping(dirty, d, image_id, is_stored) ==
    [dirty EXCEPT !.images = (image_id :> Flushed(d, dirty).images[image_id]) @@ @]

\* update_image_status: dto.is_stored = is_stored on the row of the image
update_image_status(dirty, d, image_id, is_stored) ==
    [dirty EXCEPT !.images =
        (image_id :> [Flushed(d, dirty).images[image_id] EXCEPT !.is_stored = is_stored]) @@ @]

\* select count() of the image rows of the task, stored or not
get_images_count_by_task(d, task_id) == Cardinality(ImagesOfTask(d, task_id))

\* get_images_by_task, as UoWGetImagesByTaskHandler returns it: the ids of the task's rows
GetImagesByTask(d, task_id) == ImagesOfTask(d, task_id)

\* The stored images of a task.
StoredImages(d, task_id) == {i \in ImagesOfTask(d, task_id) : d.images[i].is_stored}

ImageDeletionCompleted(m) ==
    [type |-> "ImageDeletionCompleted", task_id |-> m.task_id, image_id |-> m.image_id]

ImageDeletionFailed(m, error_message) ==
    [type |-> "ImageDeletionFailed", task_id |-> m.task_id, image_id |-> m.image_id,
     error_message |-> error_message, reason |-> "saga"]

\* The except clause returning normally instead of re-raising.
Reported_Swallowing(r, ok) ==
    [r EXCEPT !.failure = r.exc, !.exc = "none",
              !.reported = IF ok THEN "sent" ELSE "lost",
              !.sent = IF ok THEN Append(@, ImageDeletionFailed(r.msg, r.exc)) ELSE @,
              !.pc = "exit"]

\* except Exception as e: publish ImageDeletionFailed (a failing publish is logged and
\* dropped), then raise e. ok: publish_event returns.
Reported(r, ok) ==
    [r EXCEPT !.failure = r.exc,
              !.reported = IF ok THEN "sent" ELSE "lost",
              !.sent = IF ok THEN Append(@, ImageDeletionFailed(r.msg, r.exc)) ELSE @,
              !.pc = "exit"]

\* image_repository.get_by_id, task_repository.get_by_id, os.remove of the image file
Compensate(p) ==
    /\ proc[p].pc = "compensate"
    /\ LET r == proc[p]
           iid == r.msg.image_id
           tid == r.msg.task_id
           r1 == [r EXCEPT !.uow = _get_repository(_get_repository(@, "image"), "retrieval")]
       IN IF db.images[iid] = NoRow
          THEN /\ proc' = [proc EXCEPT ![p] = Raised(r1, "ValueError")]
               /\ files' = files
          ELSE IF db.tasks[tid] = NoRow
          THEN /\ proc' = [proc EXCEPT ![p] = Raised(r1, "NotFound")]
               /\ files' = files
          ELSE \E order \in Enumerations(ImagesOfTask(db, tid)), rm_ok \in BOOLEAN :
                 LET row == db.images[iid]
                     path == <<row.task_id, row.filename>>
                     r2 == [r1 EXCEPT !.task = _dto_to_entity(db, tid, order),
                                      !.met = db.tasks[tid].status,
                                      !.image = ImageData(iid, row.filename, row.is_stored),
                                      !.last = StoredImages(db, tid) = {iid}]
                 IN /\ path \notin files => rm_ok
                    /\ IF path \in files /\ ~rm_ok
                       THEN /\ proc' = [proc EXCEPT ![p] = Raised(r2, "OSError")]
                            /\ files' = files
                       ELSE /\ proc' = [proc EXCEPT ![p] =
                                  [r2 EXCEPT !.removed = path \in files, !.pc = "mark"]]
                            /\ files' = files \ {path}
    /\ UNCHANGED <<task, call, now, db, broker, delivered, uuids, consumer, publisher, uows>>

\* update_image_status(image.id, False), get_images_count_by_task and, when no more
\* than one row is counted, task.fail_retrieval
MarkDeleted(p) ==
    /\ proc[p].pc = "mark"
    /\ \E ok \in BOOLEAN :
          LET r == proc[p]
              dirty == update_image_status(r.dirty, db, r.image.id, FALSE)
          IN IF ok
             THEN /\ db' = Flushed(db, dirty)
                  /\ IF get_images_count_by_task(Flushed(db, dirty), r.task.id) <= 1
                     THEN LET t1 == fail_retrieval(r.task, now, "compensation")
                          IN /\ proc' = [proc EXCEPT ![p] =
                                   [r EXCEPT !.task = t1, !.wrote = TRUE, !.task_failed = TRUE,
                                             !.queue = <<t1.events[Len(t1.events)],
                                                         ImageDeletionCompleted(r.msg)>>,
                                             !.pc = "update"]]
                             /\ now' = now + 1
                     ELSE /\ proc' = [proc EXCEPT ![p] =
                                [r EXCEPT !.wrote = TRUE,
                                          !.queue = <<ImageDeletionCompleted(r.msg)>>,
                                          !.pc = "publish"]]
                          /\ now' = now
             ELSE /\ db' = db
                  /\ now' = now
                  /\ proc' = [proc EXCEPT ![p] = Raised([r EXCEPT !.dirty = dirty], "DBError")]
    /\ UNCHANGED <<task, call, files, broker, delivered, uuids, consumer, publisher, uows>>

\* The except clause of the compensation
Report(p) ==
    /\ proc[p].pc = "report"
    /\ LET e == ImageDeletionFailed(proc[p].msg, proc[p].exc)
       IN \E at \in PublishOutcomes(publisher, e) :
             /\ proc' = [proc EXCEPT ![p] = Reported(proc[p], at = "none")]
             /\ publisher' = publish_event(publisher, e, at)
             /\ broker' = IF at = "none" THEN Append(broker, e) ELSE broker
    /\ UNCHANGED <<task, call, now, db, files, delivered, uuids, consumer, uows>>

(***************************************************************************)
(* SpecCommands: a caller running the handlers one after another.          *)
(***************************************************************************)
\* No consumer is started; the database is empty.
InitCommands == InitTask

Invoke ==
    /\ \A p \in Procs : proc[p].pc \in {"idle", "done"}
    /\ delivered < MaxCommands
    /\ \E m \in DirectCommands :
          proc' = [proc EXCEPT ![FreeSlot] =
             Entered([IdleProc EXCEPT
                        !.msg = m,
                        !.uow = get_unit_of_work(uows),
                        !.again = /\ m.type = "DeleteRetrievedImage"
                                  /\ proc[FreeSlot].msg = m
                                  /\ proc[FreeSlot].settled = "returned"])]
    /\ delivered' = delivered + 1
    /\ uows' = uows + 1
    /\ UNCHANGED <<task, call, now, db, files, broker, uuids, consumer, publisher>>

NextCommands ==
    \/ Invoke
    \/ \E p \in Procs :
          \/ Save(p)
          \/ Load(p)
          \/ SaveImage(p)
          \/ Compensate(p)
          \/ MarkDeleted(p)
          \/ Publish(p)
          \/ Update(p)
          \/ Commit(p)
          \/ Report(p)
          \/ Exit(p)

SpecCommands == InitCommands /\ [][NextCommands]_vars

(***************************************************************************)
(* SpecPublisher: callers handing event lists to publish_events.           *)
(***************************************************************************)
\* Events as the aggregate creates them; two of them go to the same topic.
Events ==
    {Head(start_retrieval(RetrievalTask(1), 1).events)}
    \cup {Head(fail_retrieval(RetrievalTask(1), 1, m).events) : m \in ErrorMessages}

\* The lists handed to publish_events: any events in any order, the empty list included.
EventLists == UNION {Enumerations(S) : S \in SUBSET Events}

\* A call of publish_events(events); with no event the loop body never runs.
PublishEvents ==
    /\ publisher.pc \in {"idle", "returned", "raised"}
    /\ now < MaxClock
    /\ \E events \in EventLists :
          publisher' = [publisher EXCEPT !.events = events, !.next = 1, !.sent = <<>>,
                                         !.raised = "none",
                                         !.pc = IF events = <<>> THEN "returned"
                                                ELSE "sending"]
    /\ now' = now + 1
    /\ UNCHANGED <<task, call, db, files, broker, proc, delivered, uuids, consumer, uows>>

\* The next iteration of the loop of publish_events
PublishEvent ==
    /\ publisher.pc = "sending"
    /\ \E at \in PublishOutcomes(publisher, publisher.events[publisher.next]) :
          /\ publisher' = publish_events(publisher, at)
          /\ broker' = IF at = "none" THEN Append(broker, publisher.events[publisher.next])
                       ELSE broker
    /\ UNCHANGED <<task, call, now, db, files, proc, delivered, uuids, consumer, uows>>

NextPublisher == PublishEvents \/ PublishEvent

SpecPublisher == InitTask /\ [][NextPublisher]_vars

(***************************************************************************)
(* SpecUow: one SqlAlchemyUnitOfWork in the hands of a caller that enters  *)
(* its scope, looks repositories up, writes, commits or not, and leaves.   *)
(***************************************************************************)
\* The caller's code inside "async with uow".
ScopeBody == Envelope("direct", "scope", 0, TRUE)

\* The names a caller may ask for: the registered ones and one that is not.
RepositoryNames == repositories_factory \cup {"unknown"}

\* One unit of work has been constructed and nothing was done with it.
InitUow ==
    /\ task = RetrievalTask(1)
    /\ now = 1
    /\ call = NoCall
    /\ db = EmptyDb
    /\ files = {}
    /\ broker = <<>>
    /\ proc = [p \in Procs |->
                 IF p = 1 THEN [IdleProc EXCEPT !.msg = ScopeBody, !.uow = get_unit_of_work(0)]
                 ELSE IdleProc]
    /\ delivered = 0
    /\ uuids = [tasks |-> 0, images |-> 0]
    /\ consumer = NoConsumer
    /\ publisher = NoPublisher
    /\ uows = 1

\* async with uow: __aenter__ on a unit of work that is in no scope
UowEnter ==
    /\ proc[1].pc \in {"idle", "done"}
    /\ proc[1].uow.sessions < MaxSessions
    /\ proc' = [proc EXCEPT ![1] =
                  [IdleProc EXCEPT !.msg = ScopeBody, !.uow = __aenter__(proc[1].uow),
                                   !.invoked = TRUE, !.pc = "scope"]]
    /\ UNCHANGED <<task, call, now, db, files, broker, delivered, uuids, consumer,
                   publisher, uows>>

\* uow.repository(name) inside the scope; the KeyError of an unregistered name
\* travels up the body
UowRepository ==
    /\ proc[1].pc = "scope"
    /\ \E name \in RepositoryNames :
          LET r == proc[1]
              found == repository(r.uow, name)
              r1 == [r EXCEPT !.uow = _get_repository(@, name)]
          IN /\ call' = [op |-> "repository", name |-> name, result |-> found,
                         raised |-> IF found = NoRepository THEN "KeyError" ELSE "none",
                         before |-> r.uow]
             /\ proc' = [proc EXCEPT ![1] = IF found = NoRepository
                                            THEN Raised(r1, "KeyError") ELSE r1]
    /\ UNCHANGED <<task, now, db, files, broker, delivered, uuids, consumer, publisher, uows>>

\* The body goes on to write a task through the repository it looked up.
UowWrite ==
    /\ proc[1].pc = "scope"
    /\ Memoized(proc[1].uow, "retrieval") # {}
    /\ uuids.tasks < MaxTasks
    /\ proc' = [proc EXCEPT ![1].pc = "save"]
    /\ UNCHANGED <<task, call, now, db, files, broker, delivered, uuids, consumer,
                   publisher, uows>>

\* The body ends without calling commit() (or without calling it again).
UowLeave ==
    /\ proc[1].pc \in {"scope", "commit"}
    /\ proc' = [proc EXCEPT ![1].pc = "exit"]
    /\ UNCHANGED <<task, call, now, db, files, broker, delivered, uuids, consumer,
                   publisher, uows>>

\* The body raises an exception of its own.
UowRaise ==
    /\ proc[1].pc \in {"scope", "commit"}
    /\ proc' = [proc EXCEPT ![1] = Raised(proc[1], "ValueError")]
    /\ UNCHANGED <<task, call, now, db, files, broker, delivered, uuids, consumer,
                   publisher, uows>>

NextUow ==
    \/ UowEnter
    \/ UowRepository
    \/ UowWrite
    \/ Save(1)
    \/ Commit(1)
    \/ UowLeave
    \/ UowRaise
    \/ Exit(1)

SpecUow == InitUow /\ [][NextUow]_vars

(***************************************************************************)
(* SpecPublishing: handlers calling publish_event on the one publisher at  *)
(* the same time. A call runs up to "await loop.run_in_executor(send)" in  *)
(* one piece and is resumed when the send has ended.                       *)
(***************************************************************************)
PublishCall == Envelope("direct", "publish_event", 0, TRUE)

\* A handler calls publish_event(event).
CallPublishEvent ==
    /\ delivered < MaxCommands
    /\ \E p \in Procs, e \in Events :
          /\ proc[p].pc \in {"idle", "done"}
          /\ proc' = [proc EXCEPT ![p] =
                        [IdleProc EXCEPT !.msg = PublishCall, !.queue = <<e>>,
                                         !.invoked = TRUE, !.pc = "producer"]]
    /\ delivered' = delivered + 1
    /\ UNCHANGED <<task, call, now, db, files, broker, uuids, consumer, publisher, uows>>

\* _initialize(), _get_topic_for_event, _get_producer(topic): no await among them
GetProducer(p) ==
    /\ proc[p].pc = "producer"
    /\ LET e == Head(proc[p].queue)
       IN \E at \in PublishOutcomes(publisher, e) \ {"send"} :
             /\ publisher' = publish_event(publisher, e, at)
             /\ proc' = [proc EXCEPT ![p] =
                           IF at = "none" THEN [proc[p] EXCEPT !.pc = "send"]
                           ELSE [proc[p] EXCEPT !.exc = "PulsarError", !.settled = "raised",
                                                !.pc = "done"]]
    /\ UNCHANGED <<task, call, now, db, files, broker, delivered, uuids, consumer, uows>>

\* producer.send in the executor has returned or raised; publish_event ends
Send(p) ==
    /\ proc[p].pc = "send"
    /\ \E ok \in BOOLEAN :
          LET r == proc[p]
              e == Head(r.queue)
          IN /\ broker' = IF ok THEN Append(broker, e) ELSE broker
             /\ proc' = [proc EXCEPT ![p] =
                           IF ok THEN [r EXCEPT !.sent = <<e>>, !.queue = <<>>,
                                                !.settled = "returned", !.pc = "done"]
                           ELSE [r EXCEPT !.exc = "PulsarError", !.settled = "raised",
                                          !.pc = "done"]]
    /\ UNCHANGED <<task, call, now, db, files, delivered, uuids, consumer, publisher, uows>>

NextPublishing ==
    \/ CallPublishEvent
    \/ \E p \in Procs :
          \/ GetProducer(p)
          \/ Send(p)

SpecPublishing == InitTask /\ [][NextPublishing]_vars

(***************************************************************************)
(* Claims about the aggregate's state machine.                             *)
(***************************************************************************)
StateMachineCalls == {"start", "complete", "fail"}

\* C1: start() followed by complete() or fail() leaves the task in a terminal
\* status, and any further start(), complete() or fail() call on a terminal task
\* fails with InvalidState and leaves status, result, started_at, completed_at and
\* the pending event list unchanged.
C1_TerminalTaskRejectsCalls ==
    /\ (call.op \in {"complete", "fail"} /\ call.met = "IN_PROGRESS") => IsTerminal(task)
    /\ (call.op \in StateMachineCalls /\ call.met \in TerminalStatus)
          => (call.raised = "InvalidState" /\ task = call.before)

\* C11: start() succeeds only on a task whose status is PENDING; on a task that is
\* IN_PROGRESS, COMPLETED or FAILED it is rejected, started_at is not overwritten
\* and no RetrievalStarted event is emitted.
C11_StartOnlyFromPending ==
    (call.op = "start" /\ call.met # "PENDING")
    => /\ call.raised # "none"
       /\ task.started_at = call.before.started_at
       /\ task.events = call.before.events

\* C12: for every list of N images, notifyImagesRetrieved appends to the task's
\* pending events exactly one ImagesRetrieved event (count N, image ids in input
\* order) followed by exactly N ImageReadyForAnonymization events, one per image in
\* the order of the input list, and changes neither the task status nor the image
\* collection.
C12_NotifyFansOutInOrder ==
    call.op = "notify"
    => LET images == call.arg.images
           n == Len(images)
           old == Len(call.before.events)
       IN /\ Len(task.events) = old + 1 + n
          /\ SubSeq(task.events, 1, old) = call.before.events
          /\ task.events[old + 1].type = "ImagesRetrieved"
          /\ task.events[old + 1].number_of_images = n
          /\ task.events[old + 1].image_ids = [k \in 1..n |-> images[k].id]
          /\ \A k \in 1..n :
                /\ task.events[old + 1 + k].type = "ImageReadyForAnonymization"
                /\ task.events[old + 1 + k].image_id = images[k].id
          /\ StatusOf(task) = StatusOf(call.before)
          /\ task.result = call.before.result
          /\ task.images = call.before.images

C12_Witness ==
    /\ call.op = "notify"
    /\ Len(call.arg.images) = 2
    /\ call.arg.images[1].id # call.arg.images[2].id
    /\ call.before.events # <<>>
    /\ Len(task.events) = Len(call.before.events) + 3

\* C13: for a task with k attached images, fail(msg) sets the result to status
\* FAILED with successful_images = k, failed_images = 0 and total_images = k,
\* whatever msg is, and emits exactly one RetrievalFailed event.
C13_FailCountsAttachedImages ==
    call.op = "fail"
    => LET k == Len(call.before.images)
           old == Len(call.before.events)
       IN /\ task.result.status = "FAILED"
          /\ task.result.successful_images = k
          /\ task.result.failed_images = 0
          /\ task.result.total_images = k
          /\ Len(task.events) = old + 1
          /\ SubSeq(task.events, 1, old) = call.before.events
          /\ task.events[old + 1].type = "RetrievalFailed"

C13_Witness ==
    /\ call.op = "fail"
    /\ Len(call.before.images) = MaxImages
    /\ task.result.successful_images = MaxImages
    /\ call.arg.message = "e2"

\* C14: complete(successful, failed, details) on a non-terminal task sets status
\* COMPLETED with total_images = successful + failed and the given counts, sets
\* completed_at, and emits exactly one RetrievalCompleted event carrying that result.
C14_CompleteSetsResult ==
    (call.op = "complete" /\ call.met \notin TerminalStatus)
    => LET old == Len(call.before.events)
       IN /\ task.result.status = "COMPLETED"
          /\ task.result.successful_images = call.arg.successful
          /\ task.result.failed_images = call.arg.failed
          /\ task.result.total_images = call.arg.successful + call.arg.failed
          /\ task.completed_at # NoTime
          /\ Len(task.events) = old + 1
          /\ SubSeq(task.events, 1, old) = call.before.events
          /\ task.events[old + 1].type = "RetrievalCompleted"
          /\ task.events[old + 1].result = task.result

C14_Witness ==
    /\ call.op = "complete"
    /\ call.met = "IN_PROGRESS"
    /\ call.arg.successful = 1
    /\ call.arg.failed = 1
    /\ task.result.total_images = 2

Done(p) == proc[p].pc = "done"
FromBroker(p) == proc[p].msg.shape \notin {"none", "http"}
UnregisteredTypes == {"unknown", "DeleteTask"}
ExitErrors == {"RollbackError", "CloseError"}

\* C2: in every execution of a state-changing command handler, the unit-of-work
\* commit() of that command happens strictly before the first publish of any event
\* produced by that command.
C2_CommitPrecedesPublish ==
    \A p \in Procs : proc[p].sent # <<>> => proc[p].committed

\* C3: when the consumer receives a well-formed CreateRetrievalTask command and its
\* handler raises at any step (a failing unit-of-work commit after the repository
\* save included), the message is negative-acknowledged and no task created by that
\* command is visible to a later query.
C3_FailedCreateLeavesNoTask ==
    \A p \in Procs :
        (Done(p) /\ proc[p].msg.shape = "object" /\ proc[p].msg.type = "CreateRetrievalTask"
            /\ proc[p].exc # "none")
        => (proc[p].settled = "nack" /\ ~proc[p].wrote)

\* C4: a message whose payload cannot be decoded into a command envelope (not UTF-8,
\* not JSON, or JSON that is not an object) is acknowledged, never negative-
\* acknowledged, no handler is invoked and no event is published.
C4_MalformedIsAcknowledged ==
    \A p \in Procs :
        (Done(p) /\ proc[p].msg \in Malformed)
        => (proc[p].settled = "ack" /\ ~proc[p].invoked /\ proc[p].sent = <<>>)

\* C5: a message whose type has a registered handler is acknowledged only after the
\* handler has returned successfully, and if the handler raises any exception the
\* message is negative-acknowledged and never acknowledged.
C5_AckOnlyAfterSuccess ==
    \A p \in Procs :
        (Done(p) /\ proc[p].msg.shape = "object" /\ proc[p].msg.type \in command_handlers)
        => /\ proc[p].settled = "ack" => proc[p].exc = "none"
           /\ proc[p].exc # "none" => proc[p].settled = "nack"

\* C6: a well-formed message whose type has no registered handler (an envelope with
\* no type field included) is negative-acknowledged; no handler is invoked, no unit
\* of work is constructed and no persisted state changes.
C6_UnregisteredIsNacked ==
    \A p \in Procs :
        (Done(p) /\ proc[p].msg.shape = "object" /\ proc[p].msg.type \in UnregisteredTypes)
        => /\ proc[p].settled = "nack"
           /\ ~proc[p].invoked
           /\ ~proc[p].uow.made
           /\ ~proc[p].wrote
           /\ proc[p].sent = <<>>

C6_Witness ==
    \E p \in Procs :
        /\ Done(p)
        /\ proc[p].msg = Envelope("object", "unknown", 0, TRUE)
        /\ proc[p].settled = "nack"

\* C7: processing the same command message more than once (redelivery of a message
\* that was already processed) produces no duplicated effect: the persisted tasks
\* and images and the published events are those of processing it once.
C7_RedeliveryHasNoEffect ==
    \A p \in Procs : proc[p].dup => (~proc[p].wrote /\ proc[p].sent = <<>>)

\* C8: when an error is signalled inside a unit-of-work scope, leaving the scope
\* calls rollback on the session and the original error propagates to the caller.
C8_OriginalErrorPropagates ==
    \A p \in Procs :
        (proc[p].exited /\ proc[p].signalled # "none")
        => (proc[p].exit_rollback /\ proc[p].exc = proc[p].signalled)

\* C8, as amended: leaving the scope calls rollback on the session and an error
\* always reaches the caller: the original one, or the error that rollback() or
\* close() raised during the exit; the exit never turns it into a normal return.
C8_AnErrorPropagates ==
    \A p \in Procs :
        (proc[p].exited /\ proc[p].signalled # "none")
        => /\ proc[p].exit_rollback
           /\ proc[p].exc # "none"
           /\ proc[p].exc = proc[p].signalled \/ proc[p].exc \in ExitErrors
           /\ (proc[p].uow.closed /\ proc[p].exc \notin ExitErrors)
                 => proc[p].exc = proc[p].signalled

C8_Witness ==
    \E p \in Procs :
        /\ proc[p].exited
        /\ proc[p].signalled = "DBError"
        /\ proc[p].exit_rollback
        /\ proc[p].exc = "DBError"

\* C9: after any exit of a unit-of-work scope (after commit, after rollback, with
\* neither, and when the rollback or the first close attempt raises) the session has
\* been closed and the scope holds no session and no repository instances.
C9_ExitReleasesSession ==
    \A p \in Procs :
        proc[p].exited
        => (proc[p].uow.closed /\ proc[p].uow.session = "None" /\ proc[p].uow.repositories = {})

\* C10: if the underlying write fails during UnitOfWork.commit(), rollback is
\* performed before the error leaves commit(), the error propagates to the caller,
\* and none of the writes made inside the scope is visible afterwards.
C10_FailedCommitLeavesNoWrite ==
    \A p \in Procs :
        proc[p].commit_failed
        => (proc[p].rollbacks >= 1 /\ proc[p].exc # "none" /\ ~proc[p].wrote)

(***************************************************************************)
(* Claims about the compensation and about command sequences.              *)
(***************************************************************************)
Compensation(p) == Done(p) /\ proc[p].msg.type = "DeleteRetrievedImage"
LogicErrors == {"ValueError", "NotFound", "OSError"}

\* C15: compensating the same stored image twice in sequence succeeds both times,
\* leaves is_stored = false after each attempt, and the second attempt performs no
\* physical delete. (An attempt succeeds unless the database, the broker or the
\* session fails under it.)
C15_CompensationIsIdempotent ==
    \A p \in Procs :
        Compensation(p)
        => /\ proc[p].settled = "returned"
                 => /\ db.images[proc[p].msg.image_id] # NoRow
                    /\ ~db.images[proc[p].msg.image_id].is_stored
           /\ proc[p].again
                 => /\ ~proc[p].removed
                    /\ proc[p].exc \notin LogicErrors
                    /\ ~db.images[proc[p].msg.image_id].is_stored

C15_Witness ==
    \E p \in Procs :
        /\ Compensation(p)
        /\ proc[p].again
        /\ proc[p].settled = "returned"
        /\ ~proc[p].removed
        /\ <<db.images[proc[p].msg.image_id].task_id,
              db.images[proc[p].msg.image_id].filename>> \notin files

\* C16: a successful compensation transitions the owning task to FAILED exactly
\* when the compensated image was the task's last remaining stored image.
C16_FailedExactlyOnLastImage ==
    \A p \in Procs :
        (Compensation(p) /\ proc[p].settled = "returned"
            /\ db.images[proc[p].msg.image_id].task_id = proc[p].msg.task_id)
        => (proc[p].task_failed <=> proc[p].last)

\* C17: whenever any step of a compensation attempt fails, the handler publishes an
\* ImageDeletionFailed event carrying the original reason and the new error message
\* and then re-raises the error to the caller; it never returns a success result.
C17_FailureIsPublishedAndRaised ==
    \A p \in Procs :
        (Compensation(p) /\ proc[p].failure # "none")
        => /\ proc[p].sent # <<>>
           /\ proc[p].sent[Len(proc[p].sent)]
                 = ImageDeletionFailed(proc[p].msg, proc[p].failure)
           /\ proc[p].settled = "raised"

\* C17, as amended: the handler makes one attempt to publish ImageDeletionFailed and
\* then re-raises; the event, carrying the reason and the error, is the last one the
\* run sent unless that publish itself failed, and the run never returns a result.
C17_FailureIsReportedAndRaised ==
    \A p \in Procs :
        (Compensation(p) /\ proc[p].failure # "none")
        => /\ proc[p].reported \in {"sent", "lost"}
           /\ proc[p].reported = "sent"
                 => /\ proc[p].sent # <<>>
                    /\ proc[p].sent[Len(proc[p].sent)]
                          = ImageDeletionFailed(proc[p].msg, proc[p].failure)
           /\ Cardinality({k \in 1..Len(proc[p].sent) :
                              proc[p].sent[k].type = "ImageDeletionFailed"}) <= 1
           /\ proc[p].settled = "raised"
           /\ proc[p].exc # "none"
           /\ proc[p].ret = NoRet

C17_Witness ==
    \E p \in Procs :
        /\ Compensation(p)
        /\ proc[p].failure = "DBError"
        /\ proc[p].reported = "sent"
        /\ proc[p].settled = "raised"
        /\ proc[p].removed

\* C19: running Create, Start, StoreImage, Complete(successful=1, failed=0) in
\* sequence on one task yields after each step respectively: persisted status
\* PENDING; status IN_PROGRESS with non-null started_at; the stored image returned by
\* the images-by-task query; status COMPLETED with total_images = 1 (the sum of the
\* counts given).
C19_ScenarioSteps ==
    \A p \in Procs :
        (Done(p) /\ proc[p].settled = "returned")
        => LET m == proc[p].msg
               id == proc[p].ret.task_id
           IN /\ m.type = "CreateRetrievalTask"
                    => (db.tasks[id] # NoRow /\ db.tasks[id].status = "PENDING")
              /\ m.type = "StartRetrievalTask"
                    => /\ db.tasks[id].status = "IN_PROGRESS"
                       /\ db.tasks[id].started_at # NoTime
              /\ m.type = "UploadImage"
                    => proc[p].ret.image_id \in GetImagesByTask(db, id)
              /\ m.type = "CompleteRetrievalTask"
                    => /\ db.tasks[id].status = "COMPLETED"
                       /\ db.tasks[id].total_images = m.successful_images + m.failed_images
                       /\ proc[p].ret.total_images = m.successful_images + m.failed_images

\* The fourth command of scenario A has returned on the task the first three built.
C19_Witness ==
    \E p \in Procs :
        /\ Done(p)
        /\ proc[p].settled = "returned"
        /\ proc[p].msg.type = "CompleteRetrievalTask"
        /\ proc[p].msg.successful_images = 1
        /\ proc[p].msg.failed_images = 0
        /\ delivered = 4
        /\ db.tasks[proc[p].ret.task_id].status = "COMPLETED"
        /\ db.tasks[proc[p].ret.task_id].total_images = 1
        /\ db.tasks[proc[p].ret.task_id].started_at # NoTime
        /\ GetImagesByTask(db, proc[p].ret.task_id) # {}

\* C20: no event is ever published for a state change that was not committed: if a
\* command handler fails so that its transaction is rolled back, none of the events
\* produced by that command has been sent to the broker.
C20_NoEventOfRolledBackCommand ==
    \A p \in Procs :
        (proc[p].exited /\ proc[p].exit_rollback) => proc[p].sent = <<>>

\* C28: in every state of a task, completed_at is set exactly when the status is
\* COMPLETED or FAILED, started_at is set only if the task was started (it holds a
\* RetrievalStarted event), and a timestamp that a call found set is left as it was.
C28_TimestampsFollowStatus ==
    /\ (task.completed_at # NoTime) <=> IsTerminal(task)
    /\ (task.started_at # NoTime) =>
          \E k \in 1..Len(task.events) : task.events[k].type = "RetrievalStarted"
    /\ call.op # "none" =>
          /\ call.before.started_at # NoTime => task.started_at = call.before.started_at
          /\ call.before.completed_at # NoTime =>
                task.completed_at = call.before.completed_at

\* C29: add_image on a task that is not COMPLETED or FAILED appends exactly the given
\* image at the end of the images and leaves status, result, started_at, completed_at
\* and the events as they were.
C29_AddImageOnlyAppends ==
    (call.op = "add_image" /\ call.met \notin TerminalStatus) =>
        /\ task.images = call.before.images \o call.arg.images
        /\ Len(call.arg.images) = 1
        /\ StatusOf(task) = call.met
        /\ task.result = call.before.result
        /\ task.started_at = call.before.started_at
        /\ task.completed_at = call.before.completed_at
        /\ task.events = call.before.events
        /\ task = [call.before EXCEPT !.images = task.images]

\* A second image was added to a started task that already held one image and events.
C29_Witness ==
    /\ call.op = "add_image"
    /\ call.met = "IN_PROGRESS"
    /\ Len(call.before.images) = 1
    /\ call.before.events # <<>>
    /\ Len(task.images) = 2
    /\ task.images[2] = call.arg.images[1]

\* C24: publish_events sends the events of its list in the list's order (what it
\* has sent is always a prefix of the list and the broker's latest events); when it
\* returns it has sent the whole list, and when one send fails it raises with
\* exactly the events before the failing one sent and sends nothing more.
C24_PublishInOrderUntilFailure ==
    LET pb == publisher
        n == Len(pb.sent)
    IN /\ n <= Len(pb.events)
       /\ pb.sent = SubSeq(pb.events, 1, n)
       /\ n <= Len(broker)
       /\ pb.sent = SubSeq(broker, Len(broker) - n + 1, Len(broker))
       /\ pb.pc = "sending" => (pb.next = n + 1 /\ pb.raised = "none")
       /\ pb.pc = "returned" => (pb.sent = pb.events /\ pb.raised = "none")
       /\ pb.pc = "raised" =>
             /\ pb.raised # "none"
             /\ n = pb.next - 1
             /\ n < Len(pb.events)
             /\ ~ENABLED PublishEvent

\* A list of three events whose second send failed after the first had been sent.
C24_Witness ==
    /\ publisher.pc = "raised"
    /\ Len(publisher.events) = 3
    /\ publisher.sent = <<publisher.events[1]>>
    /\ broker # <<>>

\* C21: once stop() has run to its end, however the receive loop ended, every broker
\* resource is released: the consumer's executor, subscription and client, and the
\* publisher's producers and client.
C21_ShutdownReleasesBrokerResources ==
    consumer.stop = "stopped" =>
        /\ ~consumer.executor
        /\ ~consumer.consumer
        /\ ~consumer.client
        /\ publisher.producers = {}
        /\ ~publisher.client

\* The messages whose handling has begun and not ended.
InFlight == {p \in Procs : FromBroker(p) /\ proc[p].pc \notin {"idle", "done"}}

\* C22: every message the consumer hands to a handler has a unit-of-work instance of
\* its own, constructed for it: no two messages, in flight or finished, hold the same
\* instance, and a session is open in at most one run per instance.
C22_OwnUnitOfWorkPerMessage ==
    \A p \in Procs, q \in Procs :
        (p # q /\ FromBroker(p) /\ FromBroker(q) /\ proc[p].uow.made /\ proc[q].uow.made) =>
            /\ proc[p].uow.id # proc[q].uow.id
            /\ proc[p].uow.id \in 1..uows

\* Two messages are inside their handlers at once, each with an open session.
C22_Witness ==
    /\ Cardinality(InFlight) = 2
    /\ \A p \in InFlight : proc[p].uow.session = "set"

\* C23: the receive loop does not wait for handlers: while the consumer runs and a
\* message is still being handled, the loop can receive and dispatch a further message.
C23_ReceiveLoopNeverWaits ==
    (/\ consumer.is_running
     /\ consumer.consumer
     /\ InFlight # {}
     /\ delivered < MaxDeliveries
     /\ FreeSlots # {}) => ENABLED Receive

\* A second message was dispatched while the handler of the first was at an await.
C23_Witness ==
    /\ consumer.is_running
    /\ \E p \in InFlight, q \in InFlight :
          /\ p # q
          /\ proc[p].pc \notin {"decode"}
          /\ proc[p].invoked
          /\ proc[q].pc = "decode"

\* The commands that look their task up by id before anything else.
TaskCommands ==
    {"StartRetrievalTask", "CompleteRetrievalTask", "FailRetrievalTask", "UploadImage",
     "StoreImageBatch"}

\* C25: Start, Complete, Fail, StoreImage and StoreImageBatch on a task id that does
\* not exist fail with the not-found error, and the run persists nothing, writes no
\* file and publishes no event.
C25_MissingTaskIsNotFound ==
    \A p \in Procs :
        (proc[p].met = "absent" /\ proc[p].msg.type \in TaskCommands) =>
            /\ IF proc[p].exited THEN proc[p].signalled = "NotFound"
               ELSE proc[p].exc = "NotFound"
            /\ Done(p) => proc[p].settled = "raised"
            /\ ~proc[p].wrote
            /\ ~proc[p].committed
            /\ proc[p].dirty = NoDirty
            /\ proc[p].written = {}
            /\ proc[p].images = <<>>
            /\ proc[p].sent = <<>>
            /\ proc[p].queue = <<>>
            /\ proc[p].ret = NoRet

\* A batch of two images for a missing task has been refused, with nothing on disk.
C25_Witness ==
    \E p \in Procs :
        /\ Done(p)
        /\ proc[p].met = "absent"
        /\ proc[p].msg.type = "StoreImageBatch"
        /\ Len(proc[p].msg.filenames) = 2
        /\ proc[p].settled = "raised"
        /\ files = {}

\* C26: an image row is created with is_stored on, and is_stored goes from on to off
\* only in the step of a compensation that marks that image deleted: no step of
\* Start, Complete, Fail, StoreImage or StoreImageBatch turns it off.
C26_StoredUntilCompensated ==
    [][\A i \in ImageIds :
          /\ (db.images[i] = NoRow /\ db'.images[i] # NoRow) => db'.images[i].is_stored
          /\ (db.images[i] # NoRow /\ db'.images[i] # db.images[i]) =>
                /\ db.images[i].is_stored
                /\ ~db'.images[i].is_stored
                /\ \E p \in Procs : /\ proc[p].pc = "mark"
                                     /\ proc[p].msg.type = "DeleteRetrievedImage"
                                     /\ proc[p].msg.image_id = i
                                     /\ proc'[p].pc # "mark"]_vars

\* One image of a task was compensated and another is still stored after the task
\* was started and completed.
C26_Witness ==
    \E i \in ImageIds, j \in ImageIds :
        /\ db.images[i] # NoRow /\ db.images[j] # NoRow
        /\ db.images[i].task_id = db.images[j].task_id
        /\ db.images[i].is_stored
        /\ ~db.images[j].is_stored
        /\ db.tasks[db.images[i].task_id].status = "COMPLETED"

\* C27: a StoreImageBatch of N images that has committed attached N images to the
\* task in input order, persisted one row for each, and published exactly one
\* ImagesRetrieved (N images) followed by one ImageReadyForAnonymization per image in
\* input order; StoreImage is the case N = 1. Nothing else was published by the run.
C27_BatchStoresAndAnnouncesAll ==
    \A p \in Procs :
        LET r == proc[p]
            n == IF r.msg.type = "UploadImage" THEN 1 ELSE Len(r.msg.filenames)
            ids == [k \in 1..Len(r.images) |-> r.images[k].id]
            m == Len(r.task.images)
        IN (r.msg.type \in {"UploadImage", "StoreImageBatch"} /\ r.pc = "exit" /\ r.exc = "none") =>
              /\ Len(r.images) = n
              /\ r.msg.type = "StoreImageBatch" =>
                    \A k \in 1..n : r.images[k].filename = r.msg.filenames[k]
              /\ m >= n
              /\ SubSeq(r.task.images, m - n + 1, m) = r.images
              /\ \A k \in 1..(m - n) : \A l \in 1..n : r.task.images[k].id # ids[l]
              /\ \A k \in 1..n, l \in 1..n : k # l => ids[k] # ids[l]
              /\ \A k \in 1..n :
                    /\ db.images[ids[k]] # NoRow
                    /\ db.images[ids[k]].task_id = r.task.id
                    /\ db.images[ids[k]].filename = r.images[k].filename
              /\ Len(r.sent) = n + 1
              /\ r.sent[1] = [type |-> "ImagesRetrieved", task_id |-> r.task.id,
                              number_of_images |-> n, image_ids |-> ids]
              /\ \A k \in 1..n :
                    r.sent[k + 1] = [type |-> "ImageReadyForAnonymization",
                                     task_id |-> r.task.id, image_id |-> ids[k]]
              /\ SubSeq(broker, Len(broker) - n, Len(broker)) = r.sent

\* A batch of two images has committed on a task that was started before.
C27_Witness ==
    \E p \in Procs :
        /\ proc[p].msg.type = "StoreImageBatch"
        /\ proc[p].pc = "exit"
        /\ proc[p].exc = "none"
        /\ Len(proc[p].images) = 2
        /\ proc[p].met = "IN_PROGRESS"
        /\ Len(proc[p].sent) = 3

\* C30: after a task is COMPLETED or FAILED, StoreImage, StoreImageBatch and the
\* compensation change nothing of it: a run that met the task in a terminal status
\* attaches no image, writes no file, does not fail the task again and sends no
\* RetrievalFailed or RetrievalCompleted event.
C30_TerminalTaskIsFrozen ==
    \A p \in Procs :
        (/\ proc[p].met \in TerminalStatus
         /\ proc[p].msg.type \in {"UploadImage", "StoreImageBatch", "DeleteRetrievedImage"}) =>
            /\ proc[p].images = <<>>
            /\ proc[p].written = {}
            /\ ~proc[p].task_failed
            /\ \A k \in 1..Len(proc[p].sent) :
                  proc[p].sent[k].type \notin {"RetrievalFailed", "RetrievalCompleted"}

(***************************************************************************)
(* Claims about atomicity, the routes, settlement and compensation events. *)
(***************************************************************************)
\* C31: when a StoreImage, StoreImageBatch or compensation handler raises, the
\* persisted state is what it was before the command: no write of the failed run
\* (image row, is_stored flip, task row) is durable.
C31_FailedCommandLeavesNoWrite ==
    \A p \in Procs :
        (/\ Done(p)
         /\ proc[p].msg.type \in {"UploadImage", "StoreImageBatch", "DeleteRetrievedImage"}
         /\ proc[p].settled = "raised") => ~proc[p].wrote

\* C37: a request for a task that does not exist is answered with 404 on every
\* route, the query of a task by id included, and never with 500.
C37_MissingTaskIs404 ==
    \A p \in Procs :
        (Done(p) /\ proc[p].msg.shape = "http" /\ proc[p].met = "absent") =>
            proc[p].settled = "404"

\* C38: every message handed to _process_message ends with exactly one of
\* acknowledge and negative-acknowledge issued for it.
C38_SettledExactlyOnce ==
    \A p \in Procs :
        (Done(p) /\ FromBroker(p)) => proc[p].settled \in {"ack", "nack"}

\* How many events of one type a run has sent.
OutcomesSent(p, type) ==
    Cardinality({k \in 1..Len(proc[p].sent) : proc[p].sent[k].type = type})

\* C39: every finished compensation has published exactly one outcome event:
\* ImageDeletionCompleted if and only if it returned with the transaction committed,
\* ImageDeletionFailed if and only if it raised, and never both.
C39_OneOutcomeEvent ==
    \A p \in Procs :
        Compensation(p) =>
            /\ OutcomesSent(p, "ImageDeletionCompleted")
                  + OutcomesSent(p, "ImageDeletionFailed") = 1
            /\ OutcomesSent(p, "ImageDeletionCompleted") = 1
                  <=> (proc[p].settled = "returned" /\ proc[p].committed)
            /\ OutcomesSent(p, "ImageDeletionFailed") = 1 <=> proc[p].settled = "raised"

\* C40: a compensation whose task_id is not the task that owns the image neither
\* marks the named task FAILED nor writes the image's is_stored flag.
C40_OnlyTheOwningTask ==
    \A p \in Procs :
        (/\ proc[p].msg.type = "DeleteRetrievedImage"
         /\ db.images[proc[p].msg.image_id] # NoRow
         /\ db.images[proc[p].msg.image_id].task_id # proc[p].msg.task_id) =>
            /\ ~proc[p].task_failed
            /\ ~proc[p].wrote

(***************************************************************************)
(* Claims about the unit of work's scope, the producers and shutdown.      *)
(***************************************************************************)
\* C32: a scope left without an exception and without a commit() call has made
\* nothing durable.
C32_OnlyCommitMakesDurable ==
    \A p \in Procs :
        (proc[p].exited /\ proc[p].signalled = "none" /\ ~proc[p].committed) =>
            ~proc[p].wrote

\* The last lookup was made in the scope the unit of work is in now.
LookupInThisScope ==
    /\ call.op = "repository"
    /\ ~proc[1].exited
    /\ proc[1].uow.session = "set"
    /\ call.before.sessions = proc[1].uow.sessions

\* C33: inside one scope a name has at most one repository object, every lookup of
\* the name returns that object, and the object holds the scope's own session; a
\* lookup that finds nothing memoized (the first of a scope, also after exit and
\* re-entry) constructs an object that was never handed out before.
C33_OneRepositoryPerNameAndScope ==
    LET u == proc[1].uow
    IN /\ \A e1 \in u.repositories, e2 \in u.repositories : e1.name = e2.name => e1 = e2
       /\ u.session = "set" => \A e \in u.repositories : e.session = u.sessions
       /\ (LookupInThisScope /\ call.raised = "none") =>
             /\ call.result \in u.repositories
             /\ call.result.name = call.name
             /\ call.result.session = u.sessions
             /\ Memoized(call.before, call.name) # {} =>
                   call.result \in call.before.repositories
             /\ Memoized(call.before, call.name) = {} =>
                   call.result.inst > call.before.instances

\* In a re-entered scope a name was looked up a second time and the object of the
\* first lookup, bound to the second session, came back.
C33_Witness ==
    /\ LookupInThisScope
    /\ call.raised = "none"
    /\ proc[1].uow.sessions = 2
    /\ Memoized(call.before, call.name) = {call.result}
    /\ call.result.session = 2
    /\ call.result.inst > 1

\* C34: a lookup by a name that is not registered raises KeyError, returns no
\* repository and leaves the unit of work (memoized objects, session) as it was.
C34_UnregisteredNameRaises ==
    (call.op = "repository" /\ call.name \notin repositories_factory) =>
        /\ call.raised = "KeyError"
        /\ call.result = NoRepository
        /\ (LookupInThisScope /\ proc[1].pc = "exit") =>
              (proc[1].exc = "KeyError" /\ proc[1].uow = call.before)

\* An unregistered name was looked up in a scope that had a repository memoized.
C34_Witness ==
    /\ LookupInThisScope
    /\ call.name = "unknown"
    /\ call.raised = "KeyError"
    /\ proc[1].pc = "exit"
    /\ call.before.repositories # {}
    /\ proc[1].uow = call.before

\* C35: every topic that has a producer had it created exactly once, and no producer
\* was created for any other topic.
C35_OneProducerPerTopic ==
    /\ DOMAIN publisher.created = publisher.producers
    /\ \A topic \in publisher.producers : publisher.created[topic] = 1

\* Two publish_event calls are awaiting their send to the same topic at once, after
\* an earlier call has already sent to that topic.
C35_Witness ==
    \E p \in Procs, q \in Procs :
        /\ p # q
        /\ proc[p].pc = "send"
        /\ proc[q].pc = "send"
        /\ _get_topic_for_event(Head(proc[p].queue)) = _get_topic_for_event(Head(proc[q].queue))
        /\ publisher.created[_get_topic_for_event(Head(proc[p].queue))] = 1
        /\ \E k \in 1..Len(broker) :
              _get_topic_for_event(broker[k]) = _get_topic_for_event(Head(proc[p].queue))

\* Any step of the handler run in slot p.
HandlerStep(p) ==
    \/ Decode(p)
    \/ Save(p)
    \/ Load(p)
    \/ SaveImage(p)
    \/ Publish(p)
    \/ Update(p)
    \/ Commit(p)
    \/ Exit(p)

\* The run in slot p waits for an id the model has run out of.
AtBound(p) ==
    \/ proc[p].pc = "save" /\ uuids.tasks >= MaxTasks
    \/ proc[p].pc = "load" /\ uuids.images >= MaxImages

\* C36: stop() goes on to close() and returns whatever handlers are in flight, and a
\* handler in flight can take its next step at every point of the shutdown and after it.
C36_ShutdownLeavesHandlersRunning ==
    /\ (consumer.stop = "closing" /\ \A p \in Procs : proc[p].pc # "decode") => ENABLED Close
    /\ \A p \in InFlight :
          (consumer.stop # "none" /\ ~AtBound(p)) => ENABLED HandlerStep(p)

\* stop() has returned while a handler that entered its scope has not finished.
C36_Witness ==
    /\ consumer.stop = "stopped"
    /\ \E p \in InFlight : proc[p].invoked /\ ~proc[p].exited

====
